---- MODULE Spec2Model ----
(***************************************************************************)
(* Camosun calendar scrapers: courses_scrapper.py, program_scrapper.py and *)
(* old_program_scraper.py.  One run of a scraper's main() is a sequential  *)
(* state machine: pagination over listing pages, a loop over the links it  *)
(* found, and the save of the collected records.  The remote site is the   *)
(* environment: every fetch draws its response from a small set.           *)
(*                                                                         *)
(* A string is a sequence of tokens.  A token stands for one character, or *)
(* for a run of characters that no operation of the code splits.           *)
(***************************************************************************)
EXTENDS Integers, Sequences, FiniteSets, TLC

VARIABLES variant, pc, page, all_links, i, data, file, log, listing, inputs,
          arg, result

vars == <<variant, pc, page, all_links, i, data, file, log, listing, inputs,
          arg, result>>

(***************************************************************************)
(* Bounds of the model                                                     *)
(***************************************************************************)
MaxLinks == 2
MaxProgramPages == 14
MaxOnclickLen == 4

\* the listing pages the site offers: any page while the accumulator holds
\* fewer than MaxLinks links, then only the pages of one element
Offered(docs, links_so_far) ==
    IF Len(links_so_far) < MaxLinks THEN docs ELSE {d \in docs : Len(d) <= 1}

(***************************************************************************)
(* Python string operations on token sequences                             *)
(***************************************************************************)
Whitespace == {" ", "\n", "\t", "nbsp"}

RECURSIVE lstrip(_)
lstrip(s) ==
    IF s # <<>> /\ Head(s) \in Whitespace THEN lstrip(Tail(s)) ELSE s

RECURSIVE rstrip(_)
rstrip(s) ==
    IF s # <<>> /\ s[Len(s)] \in Whitespace
    THEN rstrip(SubSeq(s, 1, Len(s) - 1)) ELSE s

strip(s) == rstrip(lstrip(s))

RECURSIVE replace(_, _, _)
replace(s, old, new) ==
    IF s = <<>> THEN <<>>
    ELSE (IF Head(s) = old THEN new ELSE <<Head(s)>>) \o replace(Tail(s), old, new)

LowerCase == ("Credits" :> "credits") @@ ("Hours" :> "hours") @@ ("Credit" :> "credit")
                 @@ ("Hour" :> "hour") @@ ("Credential" :> "credential")
                 @@ ("Total Credits" :> "total credits")
                 @@ ("Program Code" :> "program code") @@ ("Length" :> "length")
                 @@ ("Location" :> "location") @@ ("Start Date" :> "start date")
                 @@ ("Campus" :> "campus")

lower(s) ==
    [k \in 1..Len(s) |-> IF s[k] \in DOMAIN LowerCase THEN LowerCase[s[k]] ELSE s[k]]

\* the words a token of more than one word holds as substrings
Contained == ("credits" :> {"credit"}) @@ ("hours" :> {"hour"})
                 @@ ("total credits" :> {"credit", "credits"})
                 @@ ("start date" :> {"start"})

\* Python's  sub in s  on strings
contains(sub, s) ==
    \E k \in 1..Len(s) :
        \/ s[k] = sub
        \/ s[k] \in DOMAIN Contained /\ sub \in Contained[s[k]]

RECURSIVE split(_, _)
split(s, sep) ==
    IF \E k \in 1..Len(s) : s[k] = sep
    THEN LET k == CHOOSE k \in 1..Len(s) :
                     s[k] = sep /\ \A j \in 1..(k - 1) : s[j] # sep
         IN  <<SubSeq(s, 1, k - 1)>> \o split(SubSeq(s, k + 1, Len(s)), sep)
    ELSE <<s>>

Schemes == {"https://other.example"}

urljoin(base, ref) ==
    IF ref = <<>> THEN base
    ELSE IF Head(ref) \in Schemes THEN ref
    ELSE IF Head(ref) = "/" THEN <<Head(base)>> \o ref
    ELSE <<Head(base), "/">> \o ref

(***************************************************************************)
(* Values of a call: a result, or the exception it raised                  *)
(***************************************************************************)
Return(v) == [exc |-> "", val |-> v]
Raise(e) == [exc |-> e, val |-> <<>>]

(***************************************************************************)
(* Page fetcher.  The site answers a GET with a network error, a non-2xx   *)
(* status, or a 2xx status and a body; the body may be the empty string.   *)
(***************************************************************************)
None == [none |-> TRUE, empty |-> TRUE, doc |-> <<>>]
Text(doc) == [none |-> FALSE, empty |-> FALSE, doc |-> doc]
EmptyText == [none |-> FALSE, empty |-> TRUE, doc |-> <<>>]

Failures == {[status |-> "network_error", text |-> EmptyText],
             [status |-> "http_error", text |-> EmptyText]}

Responses(docs) ==
    Failures \cup {[status |-> "ok", text |-> EmptyText]}
             \cup {[status |-> "ok", text |-> Text(d)] : d \in docs}

\* the answers to the request of a detail page
DetailResponses(docs) ==
    {[status |-> "network_error", text |-> EmptyText],
     [status |-> "ok", text |-> EmptyText]}
        \cup {[status |-> "ok", text |-> Text(d)] : d \in docs}

\* python truth value of a fetched page: None and "" are false
Truthy(html_content) == ~html_content.none /\ ~html_content.empty

get_page(response) ==
    IF response.status = "ok" THEN response.text ELSE None

get_soup(response) ==
    IF response.status = "ok" THEN Return(response.text.doc)
    ELSE IF response.status = "http_error" THEN Raise("HTTPError")
    ELSE Raise("ConnectionError")

(***************************************************************************)
(* Events of a run, in order: outbound requests, sleeps, logged errors     *)
(***************************************************************************)
NoUrl == <<>>
Get(url) == [op |-> "get", url |-> url, secs |-> 0]
Sleep(n) == [op |-> "sleep", url |-> NoUrl, secs |-> n]
LogError == [op |-> "error", url |-> NoUrl, secs |-> 0]

\* the events of one get_page call: the request, and the error it logs
fetch_events(url, response) ==
    <<Get(url)>> \o (IF response.status = "ok" THEN <<>> ELSE <<LogError>>)

(***************************************************************************)
(* courses_scrapper.py: link extractor                                     *)
(***************************************************************************)
course_base_url == <<"https://calendar.camosun.ca">>
courses_url == urljoin(course_base_url, <<"/", "content.php?catoid=25&navoid=2223">>)

PreviewCourseTokens ==
    {"preview_course.php?coid=", "preview_course_nopop.php?catoid=25&coid="}

has_attr(link, name) == name \in DOMAIN link.attrs

\* soup.select('td.width a[href*="preview_course"]')
select_course_rows(doc) ==
    SelectSeq(doc, LAMBDA a :
        /\ a.td_width
        /\ has_attr(a, "href")
        /\ \E k \in 1..Len(a.attrs.href) : a.attrs.href[k] \in PreviewCourseTokens)

\* the url is read from the href attribute
course_url_of_href(link) == urljoin(course_base_url, link.attrs.href)

course_url_of(link) ==
    LET course_coid == replace(strip(split(link.attrs.onclick, ",")[2]), "'", <<>>)
        href_link == <<"preview_course_nopop.php?catoid=25&coid=">> \o course_coid
    IN  urljoin(course_base_url, href_link)

RECURSIVE course_links_of(_, _)
course_links_of(course_rows, course_links) ==
    IF course_rows = <<>> THEN Return(course_links)
    ELSE LET link == Head(course_rows) IN
         IF ~has_attr(link, "href")
         THEN course_links_of(Tail(course_rows), course_links)
         ELSE IF ~has_attr(link, "onclick") THEN Raise("KeyError")
         ELSE IF Len(split(link.attrs.onclick, ",")) < 2 THEN Raise("IndexError")
         ELSE course_links_of(Tail(course_rows),
                  Append(course_links,
                         [code |-> strip(link.text), url |-> course_url_of(link)]))

extract_course_links(html_content) ==
    course_links_of(select_course_rows(html_content.doc), <<>>)

(***************************************************************************)
(* courses_scrapper.py: detail extractor.  A detail page is described by   *)
(* the elements the extractor looks up: the heading #course_preview_title, *)
(* the td.block_content block, its first p with the strings under it, its  *)
(* li elements and its strong elements with their next siblings.           *)
(***************************************************************************)
course_defaults(course_url) ==
    [url |-> course_url, code |-> <<>>, title |-> <<>>, description |-> <<>>,
     credits |-> <<>>, hours |-> <<>>, Prerequisites |-> <<>>,
     Equivalencies |-> <<>>, PreOrCorequisites |-> <<>>]

\* max(text_list, key=len): the first string of maximal length
max_by_len(text_list) ==
    text_list[CHOOSE k \in 1..Len(text_list) :
                  /\ \A j \in 1..Len(text_list) : Len(text_list[j]) <= Len(text_list[k])
                  /\ \A j \in 1..(k - 1) : Len(text_list[j]) < Len(text_list[k])]

index(text_list, x) ==
    CHOOSE k \in 1..Len(text_list) :
        text_list[k] = x /\ \A j \in 1..(k - 1) : text_list[j] # x

In(x, text_list) == \E k \in 1..Len(text_list) : text_list[k] = x

\* the first two parts are taken whenever there are at least two
title_step_first_two(doc, course_data) ==
    IF doc.has_title /\ Len(split(doc.title, "-")) >= 2
    THEN [course_data EXCEPT !.code = strip(split(doc.title, "-")[1]),
                             !.title = strip(split(doc.title, "-")[2])]
    ELSE course_data

\* lines 78-83
title_step(doc, course_data) ==
    IF doc.has_title /\ Len(split(doc.title, "-")) = 2
    THEN [course_data EXCEPT !.code = strip(split(doc.title, "-")[1]),
                             !.title = strip(split(doc.title, "-")[2])]
    ELSE course_data

prereq_list_of(li_list) ==
    [k \in 1..Len(li_list) |-> replace(strip(li_list[k]), "nbsp", <<" ">>)]

prereq_dict(text_list, keyword, prereq_list) ==
    [key |-> replace(strip(text_list[index(text_list, keyword) + 1]), ":", <<>>),
     items |-> prereq_list]

\* every keyword of the paragraph is served: "if" where the source has "elif"
prereq_step_independent(doc, course_data) ==
    IF doc.li_list = <<>> THEN Return(course_data)
    ELSE LET prereq_list == prereq_list_of(doc.li_list)
             has_co == In(<<"Pre or Co-requisites">>, doc.text_list)
             has_pre == In(<<"Prerequisites">>, doc.text_list)
             first == IF In(<<"Equivalencies">>, doc.text_list)
                      THEN [course_data EXCEPT !.Equivalencies = prereq_list]
                      ELSE course_data
         IN  IF \/ has_co /\ index(doc.text_list, <<"Pre or Co-requisites">>)
                              = Len(doc.text_list)
                \/ has_pre /\ index(doc.text_list, <<"Prerequisites">>)
                               = Len(doc.text_list)
             THEN Raise("IndexError")
             ELSE LET second == IF has_co
                                THEN [first EXCEPT !.PreOrCorequisites =
                                         prereq_dict(doc.text_list,
                                                     <<"Pre or Co-requisites">>,
                                                     prereq_list)]
                                ELSE first
                  IN  Return(IF has_pre
                             THEN [second EXCEPT !.Prerequisites =
                                      prereq_dict(doc.text_list, <<"Prerequisites">>,
                                                  prereq_list)]
                             ELSE second)

\* lines 93-111
prereq_step(doc, course_data) ==
    IF doc.li_list = <<>> THEN Return(course_data)
    ELSE IF In(<<"Equivalencies">>, doc.text_list)
    THEN Return([course_data EXCEPT !.Equivalencies = prereq_list_of(doc.li_list)])
    ELSE IF In(<<"Pre or Co-requisites">>, doc.text_list)
    THEN IF index(doc.text_list, <<"Pre or Co-requisites">>) = Len(doc.text_list)
         THEN Raise("IndexError")
         ELSE Return([course_data EXCEPT !.PreOrCorequisites =
                  prereq_dict(doc.text_list, <<"Pre or Co-requisites">>,
                              prereq_list_of(doc.li_list))])
    ELSE IF In(<<"Prerequisites">>, doc.text_list)
    THEN IF index(doc.text_list, <<"Prerequisites">>) = Len(doc.text_list)
         THEN Raise("IndexError")
         ELSE Return([course_data EXCEPT !.Prerequisites =
                  prereq_dict(doc.text_list, <<"Prerequisites">>,
                              prereq_list_of(doc.li_list))])
    ELSE Return(course_data)

\* a field that already has a value is not set again
RECURSIVE strong_step_first_wins(_, _)
strong_step_first_wins(strongs, course_data) ==
    IF strongs = <<>> THEN Return(course_data)
    ELSE LET strong_tag == Head(strongs)
             label == lower(strip(strong_tag.text))
         IN  IF strong_tag.sibling = "none"
                \/ (strong_tag.sibling = "string" /\ strong_tag.value = <<>>)
             THEN strong_step_first_wins(Tail(strongs), course_data)
             ELSE IF strong_tag.sibling = "tag" THEN Raise("TypeError")
             ELSE IF contains("credit", label)
             THEN strong_step_first_wins(Tail(strongs),
                      IF course_data.credits # <<>> THEN course_data
                      ELSE [course_data EXCEPT !.credits = strip(strong_tag.value)])
             ELSE IF contains("hour", label)
             THEN strong_step_first_wins(Tail(strongs),
                      IF course_data.hours # <<>> THEN course_data
                      ELSE [course_data EXCEPT !.hours = strip(strong_tag.value)])
             ELSE strong_step_first_wins(Tail(strongs), course_data)

\* lines 114-123.  A strong element: its text and its next sibling, which is
\* absent ("none"), a string ("string", possibly empty) or an element ("tag")
RECURSIVE strong_step(_, _)
strong_step(strongs, course_data) ==
    IF strongs = <<>> THEN Return(course_data)
    ELSE LET strong_tag == Head(strongs)
             label == lower(strip(strong_tag.text))
         IN  IF strong_tag.sibling = "none"
                \/ (strong_tag.sibling = "string" /\ strong_tag.value = <<>>)
             THEN strong_step(Tail(strongs), course_data)
             ELSE IF strong_tag.sibling = "tag" THEN Raise("TypeError")
             ELSE IF contains("credit", label)
             THEN strong_step(Tail(strongs),
                      [course_data EXCEPT !.credits = strip(strong_tag.value)])
             ELSE IF contains("hour", label)
             THEN strong_step(Tail(strongs),
                      [course_data EXCEPT !.hours = strip(strong_tag.value)])
             ELSE strong_step(Tail(strongs), course_data)

content_step(doc, course_data) ==
    IF ~doc.has_block THEN Return(course_data)
    ELSE IF ~doc.has_p THEN Raise("AttributeError")
    ELSE IF doc.text_list = <<>> THEN Raise("ValueError")
    ELSE LET described == [course_data EXCEPT
                              !.description = max_by_len(doc.text_list)]
             listed == prereq_step(doc, described)
         IN  IF listed.exc # "" THEN listed
             ELSE strong_step(doc.strongs, listed.val)

extract_course_details(html_content, course_url) ==
    content_step(html_content.doc,
                 title_step(html_content.doc, course_defaults(course_url)))

(***************************************************************************)
(* courses_scrapper.py: one run of main()                                  *)
(***************************************************************************)
FirstNumberedPage == 2
PageStop_late == 14 + 1
PageStop == 14

\* paginated_base_url.format(page=page)
course_page_url(p) ==
    <<"https://calendar.camosun.ca", "/",
      "content.php?catoid=25&catoid=25&navoid=2223&filter[item_type]=3&filter[only_active]=1&filter[3]=1&filter[cpage]=",
      ToString(p), "#acalog_template_course_filter">>

AnchorA ==
    [td_width |-> TRUE, text |-> <<" ", "CSCI 100", " ">>,
     attrs |-> [href |-> <<"preview_course_nopop.php?catoid=25&coid=", "1">>,
                onclick |-> <<"showCourse(", "'", "25", "'", ",", " ", "'", "1", "'",
                              ",", "this", ")">>]]
AnchorB ==
    [td_width |-> TRUE, text |-> <<"MATH 200">>,
     attrs |-> [href |-> <<"preview_course_nopop.php?catoid=25&coid=", "2">>,
                onclick |-> <<"showCourse(", "'", "25", "'", ",", "'", "2", "'",
                              ",", "this", ")">>]]
AnchorHrefOnly ==
    [td_width |-> TRUE, text |-> <<"CSCI 100">>,
     attrs |-> [href |-> <<"/", "preview_course.php?coid=", "5">>]]
AnchorElsewhere ==
    [td_width |-> FALSE, text |-> <<"Home">>,
     attrs |-> [href |-> <<"/", "index.php">>]]

CourseListingDocs ==
    {<<AnchorElsewhere>>, <<AnchorA>>, <<AnchorElsewhere, AnchorA, AnchorB>>,
     <<AnchorHrefOnly>>}

CourseDetailDocs ==
    {[has_title |-> TRUE, title |-> <<"CSCI 100", " ", "-", " ", "Computing">>,
      has_block |-> TRUE, has_p |-> TRUE,
      text_list |-> <<<<"A", "n", " ">>, <<"I", "n", "t", "r", "o">>>>,
      li_list |-> <<>>,
      strongs |-> <<[text |-> <<"Credits", ":">>, sibling |-> "string",
                     value |-> <<" ", "3">>]>>],
     [has_title |-> FALSE, title |-> <<>>, has_block |-> FALSE, has_p |-> FALSE,
      text_list |-> <<>>, li_list |-> <<>>, strongs |-> <<>>],
     [has_title |-> TRUE, title |-> <<"CSCI 100">>, has_block |-> TRUE,
      has_p |-> FALSE, text_list |-> <<>>, li_list |-> <<>>, strongs |-> <<>>]}

\* lines 144-148: what the first page adds to all_course_links
first_page_step(first_page_content, links, links_so_far) ==
    IF ~Truthy(first_page_content)
    THEN [pc |-> "pagination", all_links |-> links_so_far, events |-> <<LogError>>]
    ELSE IF links.exc # ""
    THEN [pc |-> "raised", all_links |-> links_so_far, events |-> <<>>]
    ELSE [pc |-> "pagination", all_links |-> links_so_far \o links.val,
          events |-> <<>>]

\* an empty page does not end the loop
course_page_step_continue(page_content, links, links_so_far, p) ==
    IF ~Truthy(page_content)
    THEN [pc |-> "courses", all_links |-> links_so_far, page |-> p, events |-> <<>>]
    ELSE IF links.exc # ""
    THEN [pc |-> "raised", all_links |-> links_so_far, page |-> p, events |-> <<>>]
    ELSE [pc |-> IF p + 1 < PageStop THEN "pagination" ELSE "courses",
          all_links |-> links_so_far \o links.val, page |-> p + 1,
          events |-> <<Sleep(1)>>]

\* links already in the accumulator are dropped
course_page_step_dedup(page_content, links, links_so_far, p) ==
    IF ~Truthy(page_content)
    THEN [pc |-> "courses", all_links |-> links_so_far, page |-> p, events |-> <<>>]
    ELSE IF links.exc # ""
    THEN [pc |-> "raised", all_links |-> links_so_far, page |-> p, events |-> <<>>]
    ELSE IF links.val = <<>>
    THEN [pc |-> "courses", all_links |-> links_so_far, page |-> p, events |-> <<>>]
    ELSE [pc |-> IF p + 1 < PageStop THEN "pagination" ELSE "courses",
          all_links |-> links_so_far \o
              SelectSeq(links.val, LAMBDA l :
                  \A k \in 1..Len(links_so_far) : links_so_far[k] # l),
          page |-> p + 1, events |-> <<Sleep(1)>>]

\* lines 164-174: the body of  for page in range(2, 14)  after the fetch
course_page_step(page_content, links, links_so_far, p) ==
    IF ~Truthy(page_content)
    THEN [pc |-> "courses", all_links |-> links_so_far, page |-> p, events |-> <<>>]
    ELSE IF links.exc # ""
    THEN [pc |-> "raised", all_links |-> links_so_far, page |-> p, events |-> <<>>]
    ELSE IF links.val = <<>>
    THEN [pc |-> "courses", all_links |-> links_so_far, page |-> p, events |-> <<>>]
    ELSE [pc |-> IF p + 1 < PageStop THEN "pagination" ELSE "courses",
          all_links |-> links_so_far \o links.val, page |-> p + 1,
          events |-> <<Sleep(1)>>]

\* a failed fetch gives a record of defaults
scrape_course_defaults(course_link, html_content) ==
    IF ~Truthy(html_content) THEN Return(course_defaults(course_link))
    ELSE extract_course_details(html_content, course_link)

\* lines 127-136; None is the empty tuple
scrape_course(course_link, html_content) ==
    IF ~Truthy(html_content) THEN Return(<<>>)
    ELSE extract_course_details(html_content, course_link)

\* no except clause: the exception leaves the loop
course_entity_step_uncaught(course_data, courses_data) ==
    IF course_data.exc # ""
    THEN [pc |-> "raised", data |-> courses_data, events |-> <<>>]
    ELSE [pc |-> "courses",
          data |-> IF course_data.val # <<>> THEN Append(courses_data, course_data.val)
                   ELSE courses_data,
          events |-> <<Sleep(2)>>]

\* lines 180-188: the try block around one course, and its except clause
course_entity_step(course_data, courses_data) ==
    IF course_data.exc # ""
    THEN [pc |-> "courses", data |-> courses_data, events |-> <<LogError, LogError>>]
    ELSE [pc |-> "courses",
          data |-> IF course_data.val # <<>> THEN Append(courses_data, course_data.val)
                   ELSE courses_data,
          events |-> <<Sleep(2)>>]

\* the last record is not written
course_save_to_json_short(written, courses_data) ==
    Append(written, SubSeq(courses_data, 1, Len(courses_data) - 1))

\* lines 192-198: the array written to the output file
course_save_to_json(written, courses_data) == Append(written, courses_data)

\* the save runs in a finally block
course_main_saves_finally(at) == at \in {"returned", "raised"}

\* lines 209-213: main reaches save_to_json when scrape_all_courses returned
course_main_saves(at) == at = "returned"

\* lines 142-148: the first page has its own URL
FirstCoursePage ==
    /\ variant = "course" /\ pc = "first_page"
    /\ \E response \in Responses(CourseListingDocs) :
         LET first_page_content == get_page(response)
             step == first_page_step(first_page_content,
                                     extract_course_links(first_page_content),
                                     all_links)
         IN  /\ listing' = Append(listing, [url |-> courses_url, response |-> response])
             /\ log' = log \o fetch_events(courses_url, response) \o step.events
             /\ pc' = step.pc
             /\ all_links' = step.all_links
    /\ page' = FirstNumberedPage
    /\ UNCHANGED <<variant, i, data, file, inputs, arg, result>>

\* lines 159-174: one iteration of  for page in range(2, 14)
NextCoursePage ==
    /\ variant = "course" /\ pc = "pagination" /\ page < PageStop
    /\ \E response \in Responses(Offered(CourseListingDocs, all_links)) :
         LET page_url == course_page_url(page)
             page_content == get_page(response)
             step == course_page_step(page_content, extract_course_links(page_content),
                                      all_links, page)
         IN  /\ listing' = Append(listing, [url |-> page_url, response |-> response])
             /\ log' = log \o fetch_events(page_url, response) \o step.events
             /\ pc' = step.pc
             /\ all_links' = step.all_links
             /\ page' = step.page
    /\ UNCHANGED <<variant, i, data, file, inputs, arg, result>>

\* lines 179-188: one iteration of the loop over all_course_links
ProcessCourse ==
    /\ variant = "course" /\ pc = "courses"
    /\ Len(all_links) <= MaxLinks /\ i <= Len(all_links)
    /\ \E response \in DetailResponses(CourseDetailDocs) :
         LET course_link == all_links[i]
             html_content == get_page(response)
             step == course_entity_step(scrape_course(course_link, html_content), data)
         IN  /\ inputs' = Append(inputs, [link |-> course_link, response |-> response,
                                         outline |-> <<>>])
             /\ log' = log \o fetch_events(course_link.url, response) \o step.events
             /\ data' = step.data
             /\ pc' = step.pc
    /\ i' = i + 1
    /\ UNCHANGED <<variant, page, all_links, file, listing, arg, result>>

\* line 190: return self.courses_data
ReturnCourses ==
    /\ variant = "course" /\ pc = "courses"
    /\ Len(all_links) <= MaxLinks /\ i > Len(all_links)
    /\ pc' = "returned"
    /\ UNCHANGED <<variant, page, all_links, i, data, file, log, listing, inputs,
                   arg, result>>

\* lines 192-198 and 213: scraper.save_to_json(output_file)
SaveCourses ==
    /\ variant = "course" /\ course_main_saves(pc)
    /\ file' = course_save_to_json(file, data)
    /\ pc' = "saved"
    /\ UNCHANGED <<variant, page, all_links, i, data, log, listing, inputs,
                   arg, result>>

(***************************************************************************)
(* utils/html_utils.py: clean_text                                         *)
(***************************************************************************)
\* re.sub(pattern+, repl, text): every maximal run of tokens of the class
\* becomes the one token repl
RECURSIVE sub_runs(_, _, _)
sub_runs(class, repl, text) ==
    IF text = <<>> THEN <<>>
    ELSE IF Head(text) \in class
    THEN IF Len(text) > 1 /\ text[2] \in class
         THEN sub_runs(class, repl, Tail(text))
         ELSE <<repl>> \o sub_runs(class, repl, Tail(text))
    ELSE <<Head(text)>> \o sub_runs(class, repl, Tail(text))

clean_text(text) ==
    IF text = <<>> THEN <<>>
    ELSE strip(sub_runs({"\n"}, "\n", sub_runs(Whitespace, " ", text)))

(***************************************************************************)
(* program_scrapper.py: link extractor and detail extractor                *)
(***************************************************************************)
program_base_url == <<"https://camosun.ca">>
programs_url == urljoin(program_base_url, <<"/", "programs-courses/find-program">>)

program_page_url(p) == programs_url \o <<"?page=%2C", ToString(p)>>

\* a listing page is its div.views-row elements; a row is its first anchor
RECURSIVE program_links_of(_, _)
program_links_of(views_rows, program_links) ==
    IF views_rows = <<>> THEN program_links
    ELSE LET link == Head(views_rows) IN
         IF link.has_a /\ has_attr(link, "href")
         THEN program_links_of(Tail(views_rows),
                  Append(program_links,
                         [name |-> strip(link.text),
                          url |-> urljoin(program_base_url, link.attrs.href)]))
         ELSE program_links_of(Tail(views_rows), program_links)

extract_program_links(html_content) ==
    Return(program_links_of(html_content.doc, <<>>))

program_defaults(program_url) ==
    [url |-> program_url, title |-> <<>>, intro_text |-> <<>>, overview |-> <<>>,
     credential |-> <<>>, work_experience |-> <<>>, study_options |-> <<>>,
     open_to_international |-> <<>>, area_of_study |-> <<>>, length |-> <<>>,
     program_outline_url |-> <<>>, curriculum |-> <<>>,
     tuition_info |-> <<>>, admission_requirements |-> <<>>]

\* lines 114-141: the courses of the outline page; an li is given with the
\* outcome of the course-code pattern on it
get_program_courses(html_content) ==
    IF html_content.none THEN Raise("TypeError")
    ELSE IF html_content.empty THEN Return(<<>>)
    ELSE Return(LET found == SelectSeq(html_content.doc.li_list, LAMBDA li : li.is_course)
                IN  [k \in 1..Len(found) |->
                        found[k].code \o <<" ", "-", " ">> \o found[k].title])

RECURSIVE outline_rows(_, _)
outline_rows(rows, program_data) ==
    IF Len(rows) < 2 THEN program_data
    ELSE LET header == lower(clean_text(rows[1]))
             value == clean_text(rows[2])
             rest == SubSeq(rows, 3, Len(rows))
         IN  IF contains("credential", header)
             THEN outline_rows(rest, [program_data EXCEPT !.credential = value])
             ELSE IF contains("total credits", header)
             THEN outline_rows(rest, ("total_credits" :> value) @@ program_data)
             ELSE IF contains("program code", header)
             THEN outline_rows(rest, ("program_code" :> value) @@ program_data)
             ELSE IF contains("cip", header)
             THEN outline_rows(rest, ("cip" :> value) @@ program_data)
             ELSE outline_rows(rest, program_data)

\* lines 86-111
get_program_outline_details(html_content, program_data) ==
    IF html_content.none THEN Raise("TypeError")
    ELSE IF html_content.empty \/ ~html_content.doc.has_description
    THEN Raise("AttributeError")
    ELSE IF ~html_content.doc.has_table THEN Raise("AttributeError")
    ELSE Return(outline_rows(html_content.doc.cells, program_data))

\* lines 176-199: the "program at a glance" elements, in document order
RECURSIVE glance_step(_, _)
glance_step(glance_elements, program_data) ==
    IF glance_elements = <<>> THEN program_data
    ELSE LET elem == Head(glance_elements)
             title == lower(strip(elem.info_title))
             value == strip(elem.value)
             rest == Tail(glance_elements)
         IN  IF ~elem.has_info_title \/ ~elem.has_value
             THEN glance_step(rest, program_data)
             ELSE IF contains("credential", title)
             THEN glance_step(rest, [program_data EXCEPT !.credential = value])
             ELSE IF contains("work experience", title)
             THEN glance_step(rest, [program_data EXCEPT !.work_experience = value])
             ELSE IF contains("study options", title)
             THEN glance_step(rest, [program_data EXCEPT !.study_options = value])
             ELSE IF contains("open to international", title)
             THEN glance_step(rest, [program_data EXCEPT !.open_to_international = value])
             ELSE IF contains("area of study", title)
             THEN glance_step(rest, [program_data EXCEPT !.area_of_study = value])
             ELSE IF contains("length", title)
             THEN glance_step(rest, [program_data EXCEPT !.length = value])
             ELSE glance_step(rest, program_data)

\* lines 143-233, given the two fetches of the outline page; has_outline
\* says that #more_tab holds a content div with an a.button.cta_button
\* that has an href (lines 210-217)
extract_program_details(html_content, program_url, outline1, outline2) ==
    LET doc == html_content.doc
        headed == [program_defaults(program_url) EXCEPT
                      !.title = IF doc.has_title THEN strip(doc.title) ELSE @,
                      !.intro_text = IF doc.has_intro THEN strip(doc.intro) ELSE @]
        glanced == glance_step(doc.glance, headed)
        titled == [glanced EXCEPT
                      !.overview = IF doc.has_overview THEN strip(doc.overview) ELSE @]
        linked == [titled EXCEPT !.program_outline_url =
                                     urljoin(program_base_url, doc.outline_href)]
        courses == get_program_courses(outline1)
        outlined == get_program_outline_details(outline2,
                        [linked EXCEPT !.curriculum = courses.val])
        tabs(program_data) ==
            [program_data EXCEPT
                !.tuition_info = IF doc.has_money_tab THEN strip(doc.money_tab) ELSE @,
                !.admission_requirements =
                    IF doc.has_admission_tab THEN strip(doc.admission_tab) ELSE @]
    IN  IF ~doc.has_outline THEN Return(tabs(titled))
        ELSE IF courses.exc # "" THEN courses
        ELSE IF outlined.exc # "" THEN outlined
        ELSE Return(tabs(outlined.val))

ProgramRowA ==
    [has_a |-> TRUE, text |-> <<" ", "Accounting", " ">>,
     attrs |-> [href |-> <<"/", "programs-courses/find-program/", "accounting">>]]
ProgramRowB ==
    [has_a |-> TRUE, text |-> <<"Nursing">>,
     attrs |-> [href |-> <<"/", "programs-courses/find-program/", "nursing">>]]
ProgramRowNoAnchor == [has_a |-> FALSE, text |-> <<>>, attrs |-> <<>>]

ProgramListingDocs ==
    {<<ProgramRowNoAnchor>>, <<ProgramRowA>>, <<ProgramRowA, ProgramRowNoAnchor, ProgramRowB>>}

ProgramDoc(has_outline) ==
    [has_title |-> TRUE, title |-> <<"Accounting", " ">>,
     has_intro |-> FALSE, intro |-> <<>>,
     glance |-> <<[has_info_title |-> TRUE, info_title |-> <<" ", "Credential">>,
                   has_value |-> TRUE, value |-> <<"Certificate", " ">>],
                  [has_info_title |-> FALSE, info_title |-> <<>>,
                   has_value |-> TRUE, value |-> <<"Surrey">>],
                  [has_info_title |-> TRUE, info_title |-> <<"Length">>,
                   has_value |-> TRUE, value |-> <<"2 years">>]>>,
     has_overview |-> TRUE, overview |-> <<"\n", "Overview">>,
     has_outline |-> has_outline,
     outline_href |-> <<"https://other.example", "/", "preview_program.php?poid=", "1">>,
     has_money_tab |-> TRUE, money_tab |-> <<"Tuition">>,
     has_admission_tab |-> TRUE, admission_tab |-> <<"Grade 12">>]

ProgramDetailDocs == {ProgramDoc(TRUE), ProgramDoc(FALSE)}

OutlineDoc(has_description) ==
    [has_description |-> has_description, has_table |-> TRUE,
     cells |-> <<<<"Credential", "\n">>, <<" ", "Diploma">>,
                 <<"Total Credits">>, <<"60">>>>,
     li_list |-> <<[is_course |-> TRUE, code |-> <<"ACCT 110">>,
                    title |-> <<"Accounting 1">>],
                   [is_course |-> FALSE, code |-> <<>>, title |-> <<>>]>>]

OutlineResponses ==
    {[status |-> "http_error", text |-> EmptyText],
     [status |-> "ok", text |-> Text(OutlineDoc(TRUE))],
     [status |-> "ok", text |-> Text(OutlineDoc(FALSE))]}

\* the answers to the first request of the outline page, whose list items
\* are read, and to the second, whose description table is read
OutlineCourseResponses ==
    {[status |-> "http_error", text |-> EmptyText],
     [status |-> "ok", text |-> Text(OutlineDoc(TRUE))]}

\* lines 70-81: the body of  while more_pages  after the fetch
program_page_step(html_content, page_links, links_so_far, p) ==
    IF ~Truthy(html_content) \/ page_links = <<>>
    THEN [pc |-> "programs", all_links |-> links_so_far, page |-> p, events |-> <<>>]
    ELSE [pc |-> "pagination", all_links |-> links_so_far \o page_links,
          page |-> p + 1, events |-> <<Sleep(1)>>]

\* lines 235-247; None is the empty tuple
scrape_program(program_link, html_content, outline1, outline2) ==
    IF ~Truthy(html_content) THEN Return(<<>>)
    ELSE extract_program_details(html_content, program_link.url, outline1, outline2)

\* lines 255-267: the try block around one program, and its except clause
program_entity_step(program_data, programs_data) ==
    IF program_data.exc # ""
    THEN [pc |-> "programs", data |-> programs_data, events |-> <<LogError>>]
    ELSE [pc |-> "programs",
          data |-> IF program_data.val # <<>>
                   THEN Append(programs_data, program_data.val)
                   ELSE programs_data,
          events |-> <<Sleep(2)>>]

\* lines 271-277: the array written to the output file
program_save_to_json(written, programs_data) == Append(written, programs_data)

\* lines 288-293: main reaches save_to_json when scrape_all_programs returned
program_main_saves(at) == at = "returned"

\* lines 59-84: one iteration of  while more_pages
NextProgramPage ==
    /\ variant = "program" /\ pc = "pagination" /\ page < MaxProgramPages
    /\ \E response \in Responses(Offered(ProgramListingDocs, all_links)) :
         LET page_url == program_page_url(page)
             html_content == get_page(response)
             step == program_page_step(html_content,
                                       extract_program_links(html_content).val,
                                       all_links, page)
         IN  /\ listing' = Append(listing, [url |-> page_url, response |-> response])
             /\ log' = log \o fetch_events(page_url, response) \o step.events
             /\ pc' = step.pc
             /\ all_links' = step.all_links
             /\ page' = step.page
    /\ UNCHANGED <<variant, i, data, file, inputs, arg, result>>

\* lines 235-247 and 254-267: one iteration of the loop over program_links
ProcessProgram ==
    /\ variant = "program" /\ pc = "programs"
    /\ Len(all_links) <= MaxLinks /\ i <= Len(all_links)
    /\ \E response \in DetailResponses(ProgramDetailDocs),
          o1 \in OutlineCourseResponses, o2 \in OutlineResponses :
         LET program_link == all_links[i]
             html_content == get_page(response)
             outline_url == urljoin(program_base_url, html_content.doc.outline_href)
             fetches1 == Truthy(html_content) /\ html_content.doc.has_outline
             fetches2 == fetches1 /\ get_program_courses(get_page(o1)).exc = ""
             outline == (IF fetches1 THEN <<o1>> ELSE <<>>)
                            \o (IF fetches2 THEN <<o2>> ELSE <<>>)
             step == program_entity_step(
                         scrape_program(program_link, html_content,
                                        get_page(o1), get_page(o2)), data)
         IN  /\ inputs' = Append(inputs, [link |-> program_link, response |-> response,
                                         outline |-> outline])
             /\ log' = log \o fetch_events(program_link.url, response)
                           \o (IF fetches1 THEN fetch_events(outline_url, o1) ELSE <<>>)
                           \o (IF fetches2 THEN fetch_events(outline_url, o2) ELSE <<>>)
                           \o step.events
             /\ data' = step.data
             /\ pc' = step.pc
    /\ i' = i + 1
    /\ UNCHANGED <<variant, page, all_links, file, listing, arg, result>>

\* line 269: return self.programs_data
ReturnPrograms ==
    /\ variant = "program" /\ pc = "programs"
    /\ Len(all_links) <= MaxLinks /\ i > Len(all_links)
    /\ pc' = "returned"
    /\ UNCHANGED <<variant, page, all_links, i, data, file, log, listing, inputs,
                   arg, result>>

\* lines 271-277 and 293: scraper.save_to_json(output_file)
SavePrograms ==
    /\ variant = "program" /\ program_main_saves(pc)
    /\ file' = program_save_to_json(file, data)
    /\ pc' = "saved"
    /\ UNCHANGED <<variant, page, all_links, i, data, log, listing, inputs,
                   arg, result>>

(***************************************************************************)
(* old_program_scraper.py                                                  *)
(***************************************************************************)
BASE_URL == <<"https://calendar.camosun.ca", "/">>
PROGRAMS_LIST_URL ==
    <<"https://calendar.camosun.ca", "/", "content.php?catoid=25&navoid=2225">>

\* lines 42-54, on the parsed listing page
RECURSIVE old_program_links_of(_, _)
old_program_links_of(anchors, program_links) ==
    IF anchors = <<>> THEN program_links
    ELSE LET link == Head(anchors)
             href == IF has_attr(link, "href") THEN link.attrs.href ELSE <<>>
         IN  IF href # <<>> /\ \E k \in 1..Len(href) : href[k] = "preview_program.php?poid="
             THEN old_program_links_of(Tail(anchors),
                      Append(program_links,
                             [title |-> strip(link.text), url |-> urljoin(BASE_URL, href)]))
             ELSE old_program_links_of(Tail(anchors), program_links)

\* lines 37-54
old_extract_program_links(response) ==
    LET soup == get_soup(response)
    IN  IF soup.exc # "" THEN soup
        ELSE Return(old_program_links_of(soup.val, <<>>))

\* lines 56-63: the clean_text of old_program_scraper.py
old_clean_text(text) ==
    IF text = <<>> THEN <<>> ELSE strip(sub_runs(Whitespace, " ", text))

\* lines 72-86
old_defaults(program) ==
    [title |-> program.title, url |-> program.url,
     overview |-> <<>>, credential |-> <<>>, total_credits |-> <<>>,
     length |-> <<>>, location |-> <<>>, start_date |-> <<>>,
     curriculum |-> <<>>, admission_requirements |-> <<>>,
     program_outline |-> <<>>, contact |-> <<>>, metadata |-> <<>>]

(***************************************************************************)
(* A program page of the old scraper is described by what the extractor    *)
(* looks up in the content area: its tables in document order, each with   *)
(* its class and its rows (a row is the texts of its td cells), and for    *)
(* each heading searched (overview, curriculum, admission, contact)        *)
(* whether it is found and the siblings that follow it.  A sibling is an   *)
(* element with its tag name and text; a table sibling is named by its     *)
(* position among the tables, a list sibling holds its li items, each      *)
(* with the outcome of the course pattern of line 171 on its text.         *)
(***************************************************************************)
Headings == {"h2", "h3", "h4"}

\* lines 101, 225 and 236: the siblings whose text a section collects
section_takes(section, elem) ==
    IF section = "overview"
    THEN elem.name = "p" \/ (elem.name = "div" /\ ~elem.has_table)
    ELSE IF section = "admission"
    THEN elem.name \in {"p", "ul", "ol", "div"} /\ ~elem.has_table
    ELSE elem.name \in {"p", "div", "address"}

\* lines 97-102, 221-226, 232-237: the text after a heading, up to the
\* next heading
RECURSIVE section_text(_, _)
section_text(section, siblings) ==
    IF siblings = <<>> \/ Head(siblings).name \in Headings THEN <<>>
    ELSE (IF section_takes(section, Head(siblings))
          THEN old_clean_text(Head(siblings).text) \o <<"\n">> ELSE <<>>)
             \o section_text(section, Tail(siblings))

\* lines 93-105
overview_step(doc, details) ==
    IF doc.overview.found /\ section_text("overview", doc.overview.siblings) # <<>>
    THEN [details EXCEPT
             !.overview = strip(section_text("overview", doc.overview.siblings))]
    ELSE details

\* lines 113-130: one row of a table of program metadata
old_row_step(cells, details) ==
    IF Len(cells) < 2 THEN details
    ELSE LET header == lower(old_clean_text(cells[1]))
             value == old_clean_text(cells[2])
         IN  IF contains("Credential", header)
             THEN [details EXCEPT !.credential = value]
             ELSE IF contains("Total Credits", header)
             THEN [details EXCEPT !.total_credits = value]
             ELSE IF contains("length", header)
             THEN [details EXCEPT !.length = value]
             ELSE IF contains("location", header)
             THEN [details EXCEPT !.location = value]
             ELSE IF contains("start", header)
             THEN [details EXCEPT !.start_date = value]
             ELSE [details EXCEPT !.metadata = (header :> value) @@ @]

RECURSIVE old_rows_step(_, _)
old_rows_step(rows, details) ==
    IF rows = <<>> THEN details
    ELSE old_rows_step(Tail(rows), old_row_step(Head(rows), details))

RECURSIVE old_tables_step(_, _)
old_tables_step(program_tables, details) ==
    IF program_tables = <<>> THEN details
    ELSE old_tables_step(Tail(program_tables),
                         old_rows_step(Head(program_tables).rows, details))

\* line 109: the sc_plangrid tables, or else the datadisplaytable tables
select_program_tables(doc) ==
    LET plangrid == SelectSeq(doc.tables, LAMBDA t : t.class = "sc_plangrid")
    IN  IF plangrid # <<>> THEN plangrid
        ELSE SelectSeq(doc.tables, LAMBDA t : t.class = "datadisplaytable")

NumberTokens == {"3", "1.5"}

\* lines 157-160 and 211-214: the first number of the cell, or its text
credits_of(credits_text) ==
    IF \E k \in 1..Len(credits_text) : credits_text[k] \in NumberTokens
    THEN <<credits_text[CHOOSE k \in 1..Len(credits_text) :
                           /\ credits_text[k] \in NumberTokens
                           /\ \A j \in 1..(k - 1) : credits_text[j] \notin NumberTokens]>>
    ELSE credits_text

\* lines 150-160 and 204-214: the entry of one table row
row_course(cells) ==
    IF Len(cells) > 2
    THEN [code |-> old_clean_text(cells[1]), title |-> old_clean_text(cells[2]),
          credits |-> credits_of(old_clean_text(cells[3]))]
    ELSE [code |-> old_clean_text(cells[1]), title |-> old_clean_text(cells[2])]

\* lines 147-162 and 201-216: the rows after the header row
table_courses(rows) ==
    LET course_rows == SelectSeq(IF rows = <<>> THEN <<>> ELSE Tail(rows),
                                 LAMBDA cells : Len(cells) >= 2)
    IN  [k \in 1..Len(course_rows) |-> row_course(course_rows[k])]

\* lines 167-178
list_courses(items) ==
    LET found == SelectSeq(items, LAMBDA li : li.is_course)
    IN  [k \in 1..Len(found) |->
            [code |-> strip(found[k].code), title |-> strip(found[k].title),
             credits |-> found[k].credits]]

\* lines 143-185: the walk over the siblings of the curriculum heading
RECURSIVE curriculum_after(_, _)
curriculum_after(siblings, tables) ==
    IF siblings = <<>> THEN <<>>
    ELSE LET next_elem == Head(siblings)
         IN  IF next_elem.name = "table"
             THEN table_courses(tables[next_elem.table].rows)
             ELSE IF next_elem.name \in {"ul", "ol"}
             THEN list_courses(next_elem.items)
             ELSE IF next_elem.name \in Headings THEN <<>>
             ELSE curriculum_after(Tail(siblings), tables)

CourseCodeTokens == {"ACCT 110", "MATH 200"}

\* lines 190-198: a row of two cells or more whose first cell is a course code
has_course_data(table) ==
    \E k \in 1..Len(table.rows) :
        /\ Len(table.rows[k]) >= 2
        /\ Len(old_clean_text(table.rows[k][1])) = 1
        /\ old_clean_text(table.rows[k][1])[1] \in CourseCodeTokens

\* lines 188-216: the scan of every table when no curriculum was found
RECURSIVE fallback_courses(_)
fallback_courses(tables) ==
    IF tables = <<>> THEN <<>>
    ELSE (IF has_course_data(Head(tables)) THEN table_courses(Head(tables).rows)
          ELSE <<>>) \o fallback_courses(Tail(tables))

\* lines 132-216
curriculum_step(doc, details) ==
    LET after == IF doc.curriculum.found
                 THEN curriculum_after(doc.curriculum.siblings, doc.tables)
                 ELSE <<>>
    IN  [details EXCEPT !.curriculum =
            IF after # <<>> THEN after ELSE fallback_courses(doc.tables)]

\* lines 218-238
sections_step(doc, details) ==
    [details EXCEPT
        !.admission_requirements =
            IF doc.admission.found
            THEN strip(section_text("admission", doc.admission.siblings)) ELSE @,
        !.contact =
            IF doc.contact.found
            THEN strip(section_text("contact", doc.contact.siblings)) ELSE @]

NoSection == [found |-> FALSE, siblings |-> <<>>]

\* the page in which nothing that is looked up is found; the parse of an
\* empty body
OldEmptyDoc ==
    [tables |-> <<>>, overview |-> NoSection, curriculum |-> NoSection,
     admission |-> NoSection, contact |-> NoSection]

\* lines 65-240
old_extract_program_details(program, response) ==
    LET soup == get_soup(response)
        doc == IF soup.val = <<>> THEN OldEmptyDoc ELSE soup.val
    IN  IF soup.exc # "" THEN soup
        ELSE Return(sections_step(doc,
                        curriculum_step(doc,
                            old_tables_step(select_program_tables(doc),
                                overview_step(doc, old_defaults(program))))))

(***************************************************************************)
(* test_program_scraper.py                                                 *)
(***************************************************************************)
TEST_PROGRAM_URL ==
    <<"https://calendar.camosun.ca", "/",
      "preview_program.php?catoid=25&poid=3954&returnto=2225">>

mock_program == [title |-> <<"Test Program">>, url |-> TEST_PROGRAM_URL]

\* lines 31-43: the details are extracted, then code, title and credits of
\* every curriculum entry are read
test_main(response) ==
    LET program_details == old_extract_program_details(mock_program, response)
    IN  IF program_details.exc # "" THEN program_details
        ELSE IF \E k \in 1..Len(program_details.val.curriculum) :
                    ~({"code", "title", "credits"}
                          \subseteq DOMAIN program_details.val.curriculum[k])
        THEN Raise("KeyError")
        ELSE Return(program_details.val)

OldAnchorA ==
    [text |-> <<"Accounting", " ">>,
     attrs |-> [href |-> <<"preview_program.php?poid=", "1">>]]
OldAnchorB ==
    [text |-> <<"Nursing">>,
     attrs |-> [href |-> <<"preview_program.php?poid=", "2">>]]
OldAnchorOther == [text |-> <<"Home">>, attrs |-> [href |-> <<"/", "index.php">>]]

OldListingDocs ==
    {<<OldAnchorOther>>, <<OldAnchorA>>, <<OldAnchorA, OldAnchorOther, OldAnchorB>>,
     <<OldAnchorA, OldAnchorB, OldAnchorA>>}

Elem(name, text) ==
    [name |-> name, text |-> text, has_table |-> FALSE, table |-> 0, items |-> <<>>]

TableElem(k) ==
    [name |-> "table", text |-> <<>>, has_table |-> FALSE, table |-> k, items |-> <<>>]

ListElem(name, items) ==
    [name |-> name, text |-> <<>>, has_table |-> FALSE, table |-> 0, items |-> items]

HeaderRow == <<>>

\* a page with a table of metadata, an overview, and a curriculum table
\* whose rows have three cells and two
OldProgramDoc ==
    [tables |-> <<[class |-> "sc_plangrid",
                   rows |-> <<<<<<"Credential">>, <<"Diploma">>>>,
                              <<<<"Length", "\n">>, <<"2 years">>>>>>],
                  [class |-> "",
                   rows |-> <<HeaderRow,
                              <<<<"ACCT 110">>, <<"Accounting 1">>, <<"3", " ", "credits">>>>,
                              <<<<"MATH 200">>, <<"Calculus">>>>>>]>>,
     overview |-> [found |-> TRUE,
                   siblings |-> <<Elem("p", <<"Two", "\t", " ", "years">>),
                                  Elem("h3", <<"Careers">>)>>],
     curriculum |-> [found |-> TRUE,
                     siblings |-> <<Elem("string", <<"\n">>), TableElem(2)>>],
     admission |-> NoSection, contact |-> NoSection]

OldDetailDocs == {OldEmptyDoc, OldProgramDoc}

\* lines 244-246: main after extract_program_links()
old_links_step(program_links) ==
    IF program_links.exc # "" THEN [pc |-> "raised", all_links |-> <<>>]
    ELSE [pc |-> "old_programs", all_links |-> program_links.val]

\* lines 248-254: the try block around one program, and its except clause
old_entity_step(program_details, all_programs) ==
    IF program_details.exc # ""
    THEN [pc |-> "old_programs", data |-> all_programs, events |-> <<LogError>>]
    ELSE [pc |-> "old_programs", data |-> Append(all_programs, program_details.val),
          events |-> <<Sleep(1)>>]

\* lines 244 and 37-54: program_links = extract_program_links()
OldExtractLinks ==
    /\ variant = "old" /\ pc = "links"
    /\ \E response \in Responses(OldListingDocs) :
         LET step == old_links_step(old_extract_program_links(response))
         IN  /\ listing' = Append(listing, [url |-> PROGRAMS_LIST_URL,
                                           response |-> response])
             /\ log' = log \o <<Get(PROGRAMS_LIST_URL)>>
             /\ pc' = step.pc
             /\ all_links' = step.all_links
    /\ UNCHANGED <<variant, page, i, data, file, inputs, arg, result>>

\* lines 247-254: one iteration of the loop over program_links
ProcessOldProgram ==
    /\ variant = "old" /\ pc = "old_programs"
    /\ Len(all_links) <= MaxLinks /\ i <= Len(all_links)
    /\ \E response \in DetailResponses(OldDetailDocs) :
         LET program == all_links[i]
             step == old_entity_step(old_extract_program_details(program, response),
                                     data)
         IN  /\ inputs' = Append(inputs, [link |-> program, response |-> response,
                                         outline |-> <<>>])
             /\ log' = log \o <<Get(program.url)>> \o step.events
             /\ data' = step.data
             /\ pc' = step.pc
    /\ i' = i + 1
    /\ UNCHANGED <<variant, page, all_links, file, listing, arg, result>>

\* lines 256-258: the dump of all_programs after the loop
SaveOldPrograms ==
    /\ variant = "old" /\ pc = "old_programs"
    /\ Len(all_links) <= MaxLinks /\ i > Len(all_links)
    /\ file' = Append(file, data)
    /\ pc' = "saved"
    /\ UNCHANGED <<variant, page, all_links, i, data, log, listing, inputs,
                   arg, result>>

(***************************************************************************)
(* The runs                                                                *)
(***************************************************************************)
Variants == {"course", "program", "old"}

StartPc(v) ==
    IF v = "course" THEN "first_page" ELSE IF v = "program" THEN "pagination"
    ELSE "links"

Init ==
    /\ variant \in Variants
    /\ pc = StartPc(variant)
    /\ page = 0
    /\ all_links = <<>>
    /\ i = 1
    /\ data = <<>>
    /\ file = <<>>
    /\ log = <<>>
    /\ listing = <<>>
    /\ inputs = <<>>
    /\ arg = <<>>
    /\ result = <<>>

Next ==
    \/ FirstCoursePage
    \/ NextCoursePage
    \/ ProcessCourse
    \/ ReturnCourses
    \/ SaveCourses
    \/ NextProgramPage
    \/ ProcessProgram
    \/ ReturnPrograms
    \/ SavePrograms
    \/ OldExtractLinks
    \/ ProcessOldProgram
    \/ SaveOldPrograms

Spec == Init /\ [][Next]_vars

(***************************************************************************)
(* extract_course_links on one listing page: the page holds an anchor      *)
(* outside the table and one anchor drawn from LinkArgs                    *)
(***************************************************************************)
OnclickAlphabet == {",", "'", " ", "5"}

Onclicks == UNION {[1..n -> OnclickAlphabet] : n \in 0..MaxOnclickLen}

Hrefs ==
    {<<"/", "preview_course.php?coid=", "5">>,
     <<"preview_course_nopop.php?catoid=25&coid=", "7">>,
     <<"/", "index.php">>}

Labels == {<<"CSCI 100">>, <<" ", "CSCI 100", "\n">>}

AttrSets ==
    {<<>>} \cup {("href" :> h) : h \in Hrefs}
           \cup {("onclick" :> o) : o \in {<<",", "5">>}}
           \cup {("href" :> h) @@ ("onclick" :> o) : h \in Hrefs, o \in Onclicks}

LinkArgs ==
    {[td_width |-> w, text |-> t, attrs |-> a] :
        w \in BOOLEAN, t \in Labels, a \in AttrSets}

InitLinks ==
    /\ variant = "extract_course_links"
    /\ pc = "call"
    /\ page = 0
    /\ all_links = <<>>
    /\ i = 1
    /\ data = <<>>
    /\ file = <<>>
    /\ log = <<>>
    /\ listing = <<>>
    /\ inputs = <<>>
    /\ arg \in LinkArgs
    /\ result = <<>>

ExtractCourseLinks ==
    /\ variant = "extract_course_links" /\ pc = "call"
    /\ result' = extract_course_links(Text(<<AnchorElsewhere, arg>>))
    /\ pc' = "called"
    /\ UNCHANGED <<variant, page, all_links, i, data, file, log, listing, inputs, arg>>

NextLinks == ExtractCourseLinks

SpecLinks == InitLinks /\ [][NextLinks]_vars

(***************************************************************************)
(* The extractors and the text normalizer as functions: one call of one of *)
(* them on an argument drawn from the pages below                          *)
(***************************************************************************)
MaxPageAnchors == 3
MaxTitleLen == 4
MaxLabelled == 2
MaxTextLen == 4
MaxStrings == 3

SeqsUpTo(S, n) == UNION {[1..m -> S] : m \in 0..n}

ProgramRowNoHref == [has_a |-> TRUE, text |-> <<"Nursing">>, attrs |-> <<>>]

CoursePages ==
    SeqsUpTo({AnchorA, AnchorB, AnchorHrefOnly, AnchorElsewhere}, MaxPageAnchors)

ProgramPages ==
    SeqsUpTo({ProgramRowA, ProgramRowB, ProgramRowNoAnchor, ProgramRowNoHref},
             MaxPageAnchors)

\* the link scrape_course hands to extract_course_details
CallLink == [code |-> <<"CSCI 100">>, url |-> course_url_of(AnchorA)]

NoBlockDoc ==
    [has_title |-> FALSE, title |-> <<>>, has_block |-> FALSE, has_p |-> FALSE,
     text_list |-> <<>>, li_list |-> <<>>, strongs |-> <<>>]

BlockDoc ==
    [has_title |-> FALSE, title |-> <<>>, has_block |-> TRUE, has_p |-> TRUE,
     text_list |-> <<<<"A", "n", " ">>, <<"I", "n", "t", "r", "o">>>>,
     li_list |-> <<>>, strongs |-> <<>>]

\* headings: with no separator, one, or several, with and without blanks
Titles == SeqsUpTo({"-", " ", "CSCI 100", "Computing"}, MaxTitleLen)

TitleDocs ==
    {NoBlockDoc, BlockDoc}
        \cup {[d EXCEPT !.has_title = TRUE, !.title = t] :
                  d \in {NoBlockDoc, BlockDoc}, t \in Titles}

\* strong elements whose labels classify to credits, to hours or to
\* neither, followed by a string, by nothing or by an empty string
Strongs ==
    {[text |-> <<"Credits", ":">>, sibling |-> "string", value |-> <<" ", "3">>],
     [text |-> <<" ", "Credit">>, sibling |-> "string", value |-> <<"4", " ">>],
     [text |-> <<"Credits">>, sibling |-> "none", value |-> <<>>],
     [text |-> <<"Credit">>, sibling |-> "string", value |-> <<" ">>],
     [text |-> <<"Hours", ":">>, sibling |-> "string", value |-> <<"45">>],
     [text |-> <<"Hour">>, sibling |-> "string", value |-> <<"60">>],
     [text |-> <<"Note">>, sibling |-> "string", value |-> <<"online">>]}

StrongDocs ==
    {[BlockDoc EXCEPT !.strongs = st] : st \in SeqsUpTo(Strongs, MaxLabelled)}

\* pages on which a structural element is absent: the block, its
\* paragraph, the strings of the paragraph, the string after a keyword, the
\* list items, the text sibling of a strong element
TextLists ==
    {<<>>,
     <<<<"A", "n", " ">>, <<"I", "n", "t", "r", "o">>>>,
     <<<<"I", "n", "t", "r", "o">>, <<"Prerequisites">>>>,
     <<<<"I", "n", "t", "r", "o">>, <<"Prerequisites">>, <<":", " ", "One of">>>>}

StructDocs ==
    {[has_title |-> FALSE, title |-> <<>>, has_block |-> b, has_p |-> b /\ t # <<>>,
      text_list |-> IF b THEN t ELSE <<>>,
      li_list |-> IF b THEN l ELSE <<>>,
      strongs |-> IF b THEN st ELSE <<>>] :
        b \in BOOLEAN, t \in TextLists,
        l \in {<<>>, <<<<" ", "MATH 100", "nbsp", "C">>>>},
        st \in {<<>>,
                <<[text |-> <<"Credits">>, sibling |-> "none", value |-> <<>>]>>,
                <<[text |-> <<"Credits">>, sibling |-> "tag", value |-> <<>>]>>}}
        \cup {[BlockDoc EXCEPT !.text_list = <<>>]}

\* content blocks whose paragraph holds none, one or several of the
\* keywords, in any order, before none, one or two list items
KeywordStrings ==
    {<<"I", "n", "t", "r", "o">>, <<"Equivalencies">>, <<"Pre or Co-requisites">>,
     <<"Prerequisites">>, <<":", " ", "One of">>}

ListItems ==
    {<<>>, <<<<" ", "MATH 100", "nbsp", "C">>>>,
     <<<<"MATH 100">>, <<"CSCI 100", " ">>>>}

KeywordDocs ==
    {[BlockDoc EXCEPT !.text_list = t, !.li_list = l] :
        t \in SeqsUpTo(KeywordStrings, MaxStrings) \ {<<>>}, l \in ListItems}

CourseDetailPages == TitleDocs \cup StrongDocs \cup StructDocs \cup KeywordDocs

\* div.program_glance__info elements
GlanceElements ==
    {[has_info_title |-> TRUE, info_title |-> <<" ", "Credential">>,
      has_value |-> TRUE, value |-> <<"Certificate", " ">>],
     [has_info_title |-> TRUE, info_title |-> <<"Credential">>,
      has_value |-> TRUE, value |-> <<"Diploma">>],
     [has_info_title |-> TRUE, info_title |-> <<"Credential">>,
      has_value |-> FALSE, value |-> <<>>],
     [has_info_title |-> FALSE, info_title |-> <<>>,
      has_value |-> TRUE, value |-> <<"Surrey">>],
     [has_info_title |-> TRUE, info_title |-> <<"Length">>,
      has_value |-> TRUE, value |-> <<"2 years">>],
     [has_info_title |-> TRUE, info_title |-> <<"Length", " ">>,
      has_value |-> TRUE, value |-> <<"1 year">>]}

GlanceDocs ==
    {[ProgramDoc(FALSE) EXCEPT !.glance = g] : g \in SeqsUpTo(GlanceElements, MaxLabelled)}

\* rows of a table of program metadata
MetaRows ==
    {<<<<"Credential">>, <<"Diploma">>>>,
     <<<<"Total Credits", "\n">>, <<"60">>>>,
     <<<<"Length">>, <<"2 years">>>>,
     <<<<" ", "Length">>, <<"1", "\n", "year">>>>,
     <<<<"Campus">>, <<"Lansdowne">>>>,
     <<<<"Campus">>, <<"Interurban">>, <<"Victoria">>>>,
     <<<<"Length">>>>}

MetaDocs ==
    {[OldEmptyDoc EXCEPT !.tables = <<[class |-> c, rows |-> r]>>] :
        c \in {"sc_plangrid", "datadisplaytable"}, r \in SeqsUpTo(MetaRows, MaxLabelled)}

\* rows of a curriculum table: one cell, two cells, three cells with and
\* without a number in the third
CourseRows ==
    {<<<<"ACCT 110">>>>,
     <<<<"ACCT 110">>, <<"Accounting 1">>>>,
     <<<<" ", "MATH 200">>, <<"Calculus", "\n">>, <<"3", " ", "credits">>>>,
     <<<<"MATH 200">>, <<"Calculus">>, <<"TBA">>>>,
     <<<<"Term 1">>, <<"Fall">>>>}

CourseTables ==
    {[class |-> "", rows |-> <<HeaderRow>> \o r] : r \in SeqsUpTo(CourseRows, MaxLabelled)}

CourseItems ==
    {[is_course |-> TRUE, code |-> <<"ACCT 110">>, title |-> <<"Accounting 1">>,
      credits |-> <<"3">>],
     [is_course |-> TRUE, code |-> <<"MATH 200", " ">>, title |-> <<"Calculus">>,
      credits |-> <<>>],
     [is_course |-> FALSE, code |-> <<>>, title |-> <<>>, credits |-> <<>>]}

\* the curriculum heading followed by a table, by a list, or by another
\* heading before the table; or no curriculum heading
CurriculumDocs ==
    {[OldEmptyDoc EXCEPT !.tables = <<t>>, !.curriculum = c] :
        t \in CourseTables,
        c \in {NoSection,
               [found |-> TRUE, siblings |-> <<Elem("string", <<"\n">>), TableElem(1)>>],
               [found |-> TRUE, siblings |-> <<Elem("h3", <<"Notes">>), TableElem(1)>>]}}
        \cup {[OldEmptyDoc EXCEPT
                  !.curriculum = [found |-> TRUE,
                                  siblings |-> <<Elem("p", <<"Year 1">>),
                                                 ListElem("ul", items)>>]] :
                  items \in SeqsUpTo(CourseItems, MaxLabelled)}

OldDetailPages == MetaDocs \cup CurriculumDocs

\* texts of letters, blanks, tabs and newlines; the empty text stands for
\* "" and for None
Texts == SeqsUpTo({"a", " ", "\t", "\n"}, MaxTextLen)

OldCallProgram ==
    [title |-> <<"Accounting">>,
     url |-> <<"https://calendar.camosun.ca", "/", "preview_program.php?poid=", "1">>]

CallArgs(v) ==
    IF v = "course_links" THEN CoursePages
    ELSE IF v = "program_links" THEN ProgramPages
    ELSE IF v = "course_details" THEN CourseDetailPages
    ELSE IF v = "program_details" THEN GlanceDocs
    ELSE IF v = "outline_details" THEN OutlineResponses
    ELSE IF v = "test_main" THEN DetailResponses(CurriculumDocs)
    ELSE IF v = "clean_text" THEN Texts
    ELSE OldDetailPages

CallVariants ==
    {"course_links", "program_links", "course_details", "program_details",
     "outline_details", "old_details", "test_main", "clean_text"}

InitCalls ==
    /\ variant \in CallVariants
    /\ pc = "call"
    /\ page = 0
    /\ all_links = <<>>
    /\ i = 1
    /\ data = <<>>
    /\ file = <<>>
    /\ log = <<>>
    /\ listing = <<>>
    /\ inputs = <<>>
    /\ arg \in CallArgs(variant)
    /\ result = <<>>

CallExtractCourseLinks ==
    /\ variant = "course_links" /\ pc = "call"
    /\ result' = extract_course_links(Text(arg))
    /\ pc' = "called"
    /\ UNCHANGED <<variant, page, all_links, i, data, file, log, listing, inputs, arg>>

CallExtractProgramLinks ==
    /\ variant = "program_links" /\ pc = "call"
    /\ result' = extract_program_links(Text(arg))
    /\ pc' = "called"
    /\ UNCHANGED <<variant, page, all_links, i, data, file, log, listing, inputs, arg>>

CallExtractCourseDetails ==
    /\ variant = "course_details" /\ pc = "call"
    /\ result' = extract_course_details(Text(arg), CallLink)
    /\ pc' = "called"
    /\ UNCHANGED <<variant, page, all_links, i, data, file, log, listing, inputs, arg>>

\* extract_program_details on a page without an outline button
CallExtractProgramDetails ==
    /\ variant = "program_details" /\ pc = "call"
    /\ result' = extract_program_details(Text(arg), programs_url, None, None)
    /\ pc' = "called"
    /\ UNCHANGED <<variant, page, all_links, i, data, file, log, listing, inputs, arg>>

CallOldExtractProgramDetails ==
    /\ variant = "old_details" /\ pc = "call"
    /\ result' = old_extract_program_details(OldCallProgram,
                                             [status |-> "ok", text |-> Text(arg)])
    /\ pc' = "called"
    /\ UNCHANGED <<variant, page, all_links, i, data, file, log, listing, inputs, arg>>

\* get_program_outline_details with the answer to its request of the
\* outline page
CallGetProgramOutlineDetails ==
    /\ variant = "outline_details" /\ pc = "call"
    /\ result' = get_program_outline_details(get_page(arg),
                                             program_defaults(programs_url))
    /\ pc' = "called"
    /\ UNCHANGED <<variant, page, all_links, i, data, file, log, listing, inputs, arg>>

\* test_program_scraper.py, main(), with the answer to the request of
\* TEST_PROGRAM_URL
TestMain ==
    /\ variant = "test_main" /\ pc = "call"
    /\ result' = test_main(arg)
    /\ pc' = "called"
    /\ UNCHANGED <<variant, page, all_links, i, data, file, log, listing, inputs, arg>>

\* utils.html_utils.clean_text
CallCleanText ==
    /\ variant = "clean_text" /\ pc = "call"
    /\ result' = Return(clean_text(arg))
    /\ pc' = "called"
    /\ UNCHANGED <<variant, page, all_links, i, data, file, log, listing, inputs, arg>>

NextCalls ==
    \/ CallCleanText
    \/ CallExtractCourseLinks
    \/ CallExtractProgramLinks
    \/ CallExtractCourseDetails
    \/ CallExtractProgramDetails
    \/ CallGetProgramOutlineDetails
    \/ CallOldExtractProgramDetails
    \/ TestMain

SpecCalls == InitCalls /\ [][NextCalls]_vars

(***************************************************************************)
(* What the responses of a run determine, recomputed from the record of    *)
(* the responses                                                           *)
(***************************************************************************)
Finished == pc \in {"returned", "saved"}
PaginationOver == pc \in {"courses", "programs", "returned", "saved"}

RECURSIVE Concat(_)
Concat(seqs) == IF seqs = <<>> THEN <<>> ELSE Head(seqs) \o Concat(Tail(seqs))

\* the links on the k-th listing page fetched
ListingLinks(k) ==
    LET html_content == get_page(listing[k].response)
    IN  IF ~Truthy(html_content) THEN Return(<<>>)
        ELSE IF variant = "course" THEN extract_course_links(html_content)
        ELSE IF variant = "program" THEN extract_program_links(html_content)
        ELSE old_extract_program_links(listing[k].response)

FetchFailed(response) == response.status # "ok"

\* the k-th listing fetch failed, or its page has no link
StopsAt(k) ==
    \/ FetchFailed(listing[k].response)
    \/ ListingLinks(k) = Return(<<>>)

OutlinePage(k, n) ==
    IF Len(inputs[k].outline) >= n THEN get_page(inputs[k].outline[n]) ELSE None

\* the value of the detail extractor on the page of the k-th link
Extraction(k) ==
    LET html_content == get_page(inputs[k].response)
    IN  IF variant = "course"
        THEN extract_course_details(html_content, inputs[k].link)
        ELSE IF variant = "program"
        THEN extract_program_details(html_content, inputs[k].link.url,
                                     OutlinePage(k, 1), OutlinePage(k, 2))
        ELSE old_extract_program_details(inputs[k].link, inputs[k].response)

\* the page of the k-th link reached the detail extractor
Extracted(k) ==
    IF variant = "old" THEN TRUE ELSE Truthy(get_page(inputs[k].response))

EntityRaises(k) == Extracted(k) /\ Extraction(k).exc # ""
EntitySucceeds(k) == Extracted(k) /\ Extraction(k).exc = ""

Count(S) == Cardinality(S)

(***************************************************************************)
(* C1: in scrape_all_courses, scrape_all_programs and the old main, an     *)
(* exception raised while one entity is processed is logged and never      *)
(* leaves the loop, every link is still processed, and when exactly one of *)
(* the N links raises and the others succeed the result holds N-1 records. *)
(***************************************************************************)
C1_EntityIsolation ==
    /\ pc = "raised" => inputs = <<>>
    /\ \A k \in 1..Len(inputs) : inputs[k].link = all_links[k]
    /\ Count({j \in 1..Len(log) : log[j] = LogError})
           >= Count({k \in 1..Len(inputs) : EntityRaises(k)})
    /\ (Finished => Len(inputs) = Len(all_links))
    /\ (/\ Finished
        /\ Count({k \in 1..Len(inputs) : EntityRaises(k)}) = 1
        /\ Count({k \in 1..Len(inputs) : EntitySucceeds(k)}) = Len(all_links) - 1)
       => Len(data) = Len(all_links) - 1

C1_Witness ==
    /\ variant = "course" /\ pc = "returned" /\ Len(all_links) = 2
    /\ EntityRaises(1) /\ EntitySucceeds(2)
    /\ Len(data) = 1

C3_ProgramPaginationCeiling ==
    variant = "program" => Len(listing) <= PageStop - 1

(***************************************************************************)
(* C4: scrape_all_courses fetches at most 13 listing pages: the first-page *)
(* URL once, then the numbered pages 2 to 13 in increasing order, each at  *)
(* most once.                                                              *)
(***************************************************************************)
ListingGets ==
    SelectSeq(log, LAMBDA e : e.op = "get" /\ Len(e.url) # 4)

C4_AtMostThirteenPages ==
    variant = "course" =>
        /\ Len(listing) <= 13
        /\ Len(ListingGets) = Len(listing)
        /\ \A k \in 1..Len(listing) :
               /\ ListingGets[k].url = listing[k].url
               /\ listing[k].url = IF k = 1 THEN courses_url ELSE course_page_url(k)

C4_Witness ==
    variant = "course" /\ Len(listing) = 13 /\ ~StopsAt(13)

C6_RecordPerFetchedLink ==
    (variant \in {"course", "program"} /\ Finished) =>
        /\ Len(inputs) = Len(all_links)
        /\ Len(data) = Count({k \in 1..Len(inputs) :
                                 ~FetchFailed(inputs[k].response) /\ ~EntityRaises(k)})

(***************************************************************************)
(* C6, amended: the sequence holds, in link order, exactly one record for  *)
(* each link whose detail-page fetch returned a non-empty body and whose   *)
(* extraction raised nothing; every link is processed once; a link whose   *)
(* fetch fails or returns an empty body gives no record and does not stop  *)
(* the batch.                                                              *)
(***************************************************************************)
RECURSIVE ExpectedRecords(_)
ExpectedRecords(k) ==
    IF k = 0 THEN <<>>
    ELSE IF EntitySucceeds(k) THEN Append(ExpectedRecords(k - 1), Extraction(k).val)
    ELSE ExpectedRecords(k - 1)

C6_RecordPerExtractedLink ==
    variant \in {"course", "program"} =>
        /\ \A k \in 1..Len(inputs) : inputs[k].link = all_links[k]
        /\ pc # "raised" => data = ExpectedRecords(Len(inputs))
        /\ Finished => Len(inputs) = Len(all_links)

C6_Witness ==
    /\ variant = "course" /\ pc = "returned" /\ Len(all_links) = 2
    /\ FetchFailed(inputs[1].response)
    /\ EntitySucceeds(2)
    /\ Len(data) = 1 /\ data[1].url = all_links[2]

(***************************************************************************)
(* C7, as claimed: in every variant the page fetcher answers a network     *)
(* error or a non-2xx status with a failure value and never raises, so a   *)
(* failed listing-page fetch never aborts the run.                         *)
(***************************************************************************)
C7_FailedListingFetchNeverAborts ==
    pc = "raised" => ~FetchFailed(listing[Len(listing)].response)

(***************************************************************************)
(* C8: when an exception escapes outside the per-entity guard the run ends *)
(* there: no step follows and the output file is never written.            *)
(***************************************************************************)
C8_NoFileAfterUncaught ==
    /\ [](pc = "raised" => file = <<>>)
    /\ [][pc # "raised"]_vars

C8_Witness ==
    /\ variant = "course" /\ pc = "raised" /\ Len(listing) = 3
    /\ all_links # <<>> /\ ListingLinks(3).exc = "KeyError"

(***************************************************************************)
(* C9: in each main, when pagination raised nothing, the output file is    *)
(* written once, after the last link was processed, and the array written  *)
(* is the final record sequence, also when it is empty; until then the run *)
(* does not stop.                                                          *)
(***************************************************************************)
C9_SavedOnceAtEnd ==
    /\ Len(file) <= 1
    /\ pc = "saved" <=> Len(file) = 1
    /\ file # <<>> => /\ i = Len(all_links) + 1
                     /\ Len(inputs) = Len(all_links)
                     /\ file[1] = data
    /\ (pc \in {"courses", "programs", "old_programs", "returned"}
            /\ Len(all_links) <= MaxLinks) => ENABLED Next

C9_Witness ==
    /\ pc = "saved" /\ Len(all_links) = 2 /\ data = <<>> /\ file = <<<<>>>>

C9_WitnessRecords ==
    /\ pc = "saved" /\ Len(all_links) = 2 /\ Len(data) = 2 /\ file = <<data>>

(***************************************************************************)
(* The anchor of the page matches  td.width a[href*="preview_course"]      *)
(***************************************************************************)
Matching(a) ==
    /\ a.td_width
    /\ "href" \in DOMAIN a.attrs
    /\ \E k \in 1..Len(a.attrs.href) : a.attrs.href[k] \in PreviewCourseTokens

Min(S) == CHOOSE x \in S : \A y \in S : x <= y
Max(S) == CHOOSE x \in S : \A y \in S : x >= y

Trimmed(s) ==
    LET keep == {k \in 1..Len(s) : s[k] \notin Whitespace}
    IN  IF keep = {} THEN <<>> ELSE SubSeq(s, Min(keep), Max(keep))

Commas(s) == {k \in 1..Len(s) : s[k] = ","}

\* the text between the first comma and the next one, or the end
SecondField(s) ==
    LET c1 == Min(Commas(s))
        later == {k \in Commas(s) : k > c1}
    IN  SubSeq(s, c1 + 1, IF later = {} THEN Len(s) ELSE Min(later) - 1)

Coid(onclick) == SelectSeq(Trimmed(SecondField(onclick)), LAMBDA c : c # "'")

(***************************************************************************)
(* C10, as claimed: for a listing page with exactly one matching anchor of *)
(* label L and href H, extract_course_links returns exactly one entry,     *)
(* whose code is L and whose url is the base URL joined with H.            *)
(***************************************************************************)
C10_UrlFromHref ==
    (pc = "called" /\ Matching(arg)) =>
        result = Return(<<[code |-> Trimmed(arg.text),
                           url |-> urljoin(course_base_url, arg.attrs.href)]>>)

(***************************************************************************)
(* C10, amended: for a listing page with exactly one matching anchor of    *)
(* label L whose onclick attribute has at least two comma-separated        *)
(* fields, extract_course_links returns exactly one entry, whose code is L *)
(* trimmed and whose url is the base URL joined with                       *)
(* preview_course_nopop.php?catoid=25&coid=C, C being the second field of  *)
(* onclick, trimmed and without quotes; H is not part of the url.  Without *)
(* an onclick attribute the call raises KeyError, with an onclick of one   *)
(* field IndexError.                                                       *)
(***************************************************************************)
C10_UrlFromOnclick ==
    (pc = "called" /\ Matching(arg)) =>
        IF "onclick" \notin DOMAIN arg.attrs THEN result = Raise("KeyError")
        ELSE IF Commas(arg.attrs.onclick) = {} THEN result = Raise("IndexError")
        ELSE result = Return(<<[code |-> Trimmed(arg.text),
                                url |-> <<"https://calendar.camosun.ca", "/",
                                          "preview_course_nopop.php?catoid=25&coid=">>
                                            \o Coid(arg.attrs.onclick)]>>)

C10_Witness ==
    /\ pc = "called" /\ Matching(arg)
    /\ arg.text = <<"CSCI 100">>
    /\ arg.attrs.href = <<"/", "preview_course.php?coid=", "5">>
    /\ "onclick" \in DOMAIN arg.attrs
    /\ arg.attrs.onclick = <<",", " ", "'", "5">>
    /\ result = Return(<<[code |-> <<"CSCI 100">>,
                          url |-> <<"https://calendar.camosun.ca", "/",
                                    "preview_course_nopop.php?catoid=25&coid=", "5">>]>>)

(***************************************************************************)
(* C11, as claimed: on every listing page extract_course_links and         *)
(* extract_program_links return without raising, with one entry per        *)
(* matching anchor, in document order, duplicates kept; a page without a   *)
(* matching anchor gives the empty sequence.                               *)
(***************************************************************************)
RowMatching(row) == row.has_a /\ "href" \in DOMAIN row.attrs

C11_LinkExtractorsReturn ==
    (pc = "called" /\ variant \in {"course_links", "program_links"}) =>
        LET matching == IF variant = "course_links" THEN SelectSeq(arg, Matching)
                        ELSE SelectSeq(arg, RowMatching)
        IN  /\ result.exc = ""
            /\ Len(result.val) = Len(matching)
            /\ \A k \in 1..Len(matching) :
                   Trimmed(matching[k].text) =
                       IF variant = "course_links" THEN result.val[k].code
                       ELSE result.val[k].name

(***************************************************************************)
(* C12: extract_course_details sets code and title, to the trimmed left    *)
(* and right parts, exactly when the heading text holds the separator "-"  *)
(* once; with no separator, with two or more, or with no heading element,  *)
(* both stay empty, and the heading never makes the call raise.            *)
(***************************************************************************)
Dashes(title) == {k \in 1..Len(title) : title[k] = "-"}

C12_TitleSplit ==
    (pc = "called" /\ variant = "course_details" /\ arg \in TitleDocs) =>
        /\ result.exc = ""
        /\ IF arg.has_title /\ Cardinality(Dashes(arg.title)) = 1
           THEN LET d == Min(Dashes(arg.title))
                IN  /\ result.val.code = Trimmed(SubSeq(arg.title, 1, d - 1))
                    /\ result.val.title =
                           Trimmed(SubSeq(arg.title, d + 1, Len(arg.title)))
           ELSE result.val.code = <<>> /\ result.val.title = <<>>

C12_Witness ==
    /\ pc = "called" /\ variant = "course_details"
    /\ arg.has_title /\ arg.title = <<"CSCI 100", " ", "-", "Computing">>
    /\ result.exc = ""
    /\ result.val.code = <<"CSCI 100">> /\ result.val.title = <<"Computing">>

C12_WitnessHyphenated ==
    /\ pc = "called" /\ variant = "course_details"
    /\ arg.has_title /\ arg.title = <<"CSCI 100", "-", "Computing", "-">>
    /\ result.exc = ""
    /\ result.val.code = <<>> /\ result.val.title = <<>>

(***************************************************************************)
(* The labelled elements of the page of a call, in document order, each    *)
(* with the field its label classifies to ("" when it classifies to none   *)
(* or carries no value) and its value: the strong elements of a course     *)
(* page, the "at a glance" elements of a program page, the rows of the     *)
(* table of metadata of a page of the old scraper.                         *)
(***************************************************************************)
HasToken(text, tokens) == \E k \in 1..Len(text) : text[k] \in tokens

StrongField(st) ==
    IF st.sibling # "string" \/ st.value = <<>> THEN ""
    ELSE IF HasToken(st.text, {"Credit", "Credits"}) THEN "credits"
    ELSE IF HasToken(st.text, {"Hour", "Hours"}) THEN "hours"
    ELSE ""

GlanceField(elem) ==
    IF ~elem.has_info_title \/ ~elem.has_value THEN ""
    ELSE IF HasToken(elem.info_title, {"Credential"}) THEN "credential"
    ELSE IF HasToken(elem.info_title, {"Length"}) THEN "length"
    ELSE ""

RowField(cells) ==
    IF Len(cells) >= 2 /\ HasToken(cells[1], {"Length"}) THEN "length" ELSE ""

Candidates ==
    IF variant = "course_details"
    THEN [k \in 1..Len(arg.strongs) |->
             [field |-> StrongField(arg.strongs[k]),
              value |-> Trimmed(arg.strongs[k].value)]]
    ELSE IF variant = "program_details"
    THEN [k \in 1..Len(arg.glance) |->
             [field |-> GlanceField(arg.glance[k]),
              value |-> Trimmed(arg.glance[k].value)]]
    ELSE [k \in 1..Len(arg.tables[1].rows) |->
             [field |-> RowField(arg.tables[1].rows[k]),
              value |-> IF Len(arg.tables[1].rows[k]) >= 2
                        THEN old_clean_text(arg.tables[1].rows[k][2]) ELSE <<>>]]

Positions(f) == {k \in DOMAIN Candidates : Candidates[k].field = f}

LabelFields ==
    IF variant = "course_details" THEN {"credits", "hours"}
    ELSE IF variant = "program_details" THEN {"credential", "length"}
    ELSE {"length"}

LabelledCall ==
    /\ pc = "called"
    /\ \/ variant = "course_details" /\ arg \in StrongDocs
       \/ variant = "program_details" /\ arg \in GlanceDocs
       \/ variant = "old_details" /\ arg \in MetaDocs

C14_MissingElementsLeaveDefaults ==
    /\ (pc = "called" /\ variant = "course_details") =>
           /\ result.exc = ""
           /\ ~arg.has_title => result.val.code = <<>> /\ result.val.title = <<>>
           /\ (~arg.has_block \/ ~arg.has_p \/ arg.text_list = <<>>)
                  => result.val.description = <<>>
           /\ arg.li_list = <<>> =>
                  /\ result.val.Prerequisites = <<>>
                  /\ result.val.Equivalencies = <<>>
                  /\ result.val.PreOrCorequisites = <<>>
           /\ (\A k \in 1..Len(arg.strongs) : StrongField(arg.strongs[k]) = "")
                  => result.val.credits = <<>> /\ result.val.hours = <<>>
    /\ (pc = "called" /\ variant = "outline_details") =>
           /\ result.exc = ""
           /\ (arg.status # "ok" \/ ~arg.text.doc.has_description)
                  => result.val = program_defaults(programs_url)

(***************************************************************************)
(* C15, as claimed: in a run of scrape_all_programs every program page     *)
(* that was fetched gives a record; when the outline step of a page fails  *)
(* (a request of the outline page fails, or the page has no description    *)
(* table) the record keeps curriculum at its default and still holds the   *)
(* title and the tuition and admission fields of the page.                 *)
(***************************************************************************)
Fetched == {k \in 1..Len(inputs) : Truthy(get_page(inputs[k].response))}

Rank(k) == Cardinality({j \in Fetched : j <= k})

OutlineFailed(k) ==
    /\ inputs[k].response.text.doc.has_outline
    /\ \/ Len(inputs[k].outline) < 2
       \/ \E n \in 1..2 : inputs[k].outline[n].status # "ok"
       \/ ~inputs[k].outline[2].text.doc.has_description

C15_OutlineFailureKeepsRecord ==
    (variant = "program" /\ pc \in {"programs", "returned", "saved"}) =>
        /\ Len(data) = Cardinality(Fetched)
        /\ \A k \in Fetched :
               OutlineFailed(k) =>
                   LET doc == inputs[k].response.text.doc
                       program_data == data[Rank(k)]
                   IN  /\ program_data.url = inputs[k].link.url
                       /\ program_data.title = Trimmed(doc.title)
                       /\ program_data.curriculum = <<>>
                       /\ "total_credits" \notin DOMAIN program_data
                       /\ program_data.tuition_info = Trimmed(doc.money_tab)
                       /\ program_data.admission_requirements =
                              Trimmed(doc.admission_tab)

(***************************************************************************)
(* C16, as claimed: in a run of scrape_all_courses or scrape_all_programs  *)
(* a sleep lies between any two consecutive outbound requests: between     *)
(* listing pages, between the last listing page and the first entity, and  *)
(* between entities, whatever became of the earlier one.                   *)
(***************************************************************************)
C16_SleepBetweenFetches ==
    variant \in {"course", "program"} =>
        \A j, k \in 1..Len(log) :
            (j < k /\ log[j].op = "get" /\ log[k].op = "get")
                => \E m \in (j + 1)..(k - 1) : log[m].op = "sleep"

(***************************************************************************)
(* C17, as claimed: every curriculum entry that extract_program_details of *)
(* old_program_scraper.py returns carries the keys code, title and         *)
(* credits, whichever path built it (table after the curriculum heading,   *)
(* list after the heading, scan of all tables), so the loop of the test    *)
(* over the entries never fails on a missing key.                          *)
(***************************************************************************)
C17_EntriesCarryCredits ==
    /\ (pc = "called" /\ variant = "old_details") =>
           /\ result.exc = ""
           /\ \A k \in 1..Len(result.val.curriculum) :
                  {"code", "title", "credits"} \subseteq DOMAIN result.val.curriculum[k]
    /\ (pc = "called" /\ variant = "test_main" /\ arg.status = "ok") =>
           result.exc = ""

(***************************************************************************)
(* C18, as claimed: in extract_program_details of old_program_scraper.py a *)
(* table row whose label holds "Credential" sets credential to the value   *)
(* cell, a row whose label holds "Total Credits" sets total_credits, and   *)
(* neither row is stored under metadata.                                   *)
(***************************************************************************)
C18_CredentialRowsClassified ==
    (pc = "called" /\ variant = "old_details" /\ arg \in MetaDocs) =>
        \A k \in 1..Len(arg.tables[1].rows) :
            LET cells == arg.tables[1].rows[k]
            IN  /\ (Len(cells) >= 2 /\ HasToken(cells[1], {"Credential"})) =>
                       /\ result.val.credential = old_clean_text(cells[2])
                       /\ lower(old_clean_text(cells[1]))
                              \notin DOMAIN result.val.metadata
                /\ (Len(cells) >= 2 /\ HasToken(cells[1], {"Total Credits"})) =>
                       /\ result.val.total_credits = old_clean_text(cells[2])
                       /\ lower(old_clean_text(cells[1]))
                              \notin DOMAIN result.val.metadata

(***************************************************************************)
(* C19, as claimed: utils.html_utils.clean_text keeps line breaks: every   *)
(* run of newlines of the text becomes one newline, every run of other     *)
(* whitespace one space, leading and trailing whitespace is stripped, and  *)
(* the empty text gives the empty text.                                    *)
(***************************************************************************)
C19_NewlinesNormalized ==
    (pc = "called" /\ variant = "clean_text") =>
        result = Return(strip(sub_runs({"\n"}, "\n",
                                       sub_runs(Whitespace \ {"\n"}, " ", arg))))

(***************************************************************************)
(* C20, as claimed: the url field of every record that scrape_all_courses  *)
(* appends is the URL string from which the detail page of the course was  *)
(* fetched, as the url of a program record is the URL of its program page. *)
(***************************************************************************)
Succeeded == {k \in 1..Len(inputs) : EntitySucceeds(k)}

C20_RecordUrlIsFetchedUrl ==
    (variant \in {"course", "program"}
        /\ pc \in {"courses", "programs", "returned", "saved"}) =>
        /\ Len(data) = Cardinality(Succeeded)
        /\ \A k \in Succeeded :
               inputs[k].link.url = data[Cardinality({j \in Succeeded : j <= k})].url

(***************************************************************************)
(* C21: in every record extract_course_details returns, at most one of     *)
(* Equivalencies, Pre or Co-requisites and Prerequisites differs from its  *)
(* default: when the content block has list items, the first keyword of    *)
(* the paragraph in the order Equivalencies, Pre or Co-requisites,         *)
(* Prerequisites receives every list item of the block in document order,  *)
(* and the two other fields keep the default, their keywords being in the  *)
(* paragraph or not.                                                       *)
(***************************************************************************)
Keywords == <<"Equivalencies", "PreOrCorequisites", "Prerequisites">>

KeywordText(f) ==
    IF f = "PreOrCorequisites" THEN <<"Pre or Co-requisites">> ELSE <<f>>

IsDefault(value) == <<>> = value

\* the position in Keywords of the first keyword of the paragraph, 0 if none
FirstKeyword(doc) ==
    IF \E n \in 1..3 : In(KeywordText(Keywords[n]), doc.text_list)
    THEN CHOOSE n \in 1..3 :
             /\ In(KeywordText(Keywords[n]), doc.text_list)
             /\ \A m \in 1..(n - 1) : ~In(KeywordText(Keywords[m]), doc.text_list)
    ELSE 0

\* the list items a field holds: the list itself, or the list of the mapping
ItemsOf(f, value) == IF f = "Equivalencies" THEN value ELSE value.items

HoldsItems(f, value, li_list) ==
    /\ ~IsDefault(value)
    /\ Len(ItemsOf(f, value)) = Len(li_list)
    /\ \A k \in 1..Len(li_list) :
           ItemsOf(f, value)[k] = replace(strip(li_list[k]), "nbsp", <<" ">>)

C21_OneStructuredField ==
    (pc = "called" /\ variant = "course_details" /\ result.exc = "") =>
        LET n == FirstKeyword(arg) IN
        /\ Cardinality({m \in 1..3 : ~IsDefault(result.val[Keywords[m]])}) <= 1
        /\ \A m \in 1..3 :
               IF arg.has_block /\ arg.li_list # <<>> /\ m = n
               THEN HoldsItems(Keywords[m], result.val[Keywords[m]], arg.li_list)
               ELSE IsDefault(result.val[Keywords[m]])

C21_Witness ==
    /\ pc = "called" /\ variant = "course_details" /\ result.exc = ""
    /\ Len(arg.li_list) = 2
    /\ In(<<"Prerequisites">>, arg.text_list)
    /\ In(<<"Pre or Co-requisites">>, arg.text_list)
    /\ index(arg.text_list, <<"Prerequisites">>)
           < index(arg.text_list, <<"Pre or Co-requisites">>)
    /\ ~In(<<"Equivalencies">>, arg.text_list)
    /\ IsDefault(result.val.Prerequisites) /\ IsDefault(result.val.Equivalencies)
    /\ ~IsDefault(result.val.PreOrCorequisites)
    /\ result.val.PreOrCorequisites.items = <<<<"MATH 100">>, <<"CSCI 100">>>>

\* a page with the three keywords gives the list to Equivalencies alone
C21_WitnessAllKeywords ==
    /\ pc = "called" /\ variant = "course_details" /\ result.exc = ""
    /\ \A m \in 1..3 : In(KeywordText(Keywords[m]), arg.text_list)
    /\ arg.li_list # <<>>
    /\ result.val.Equivalencies = prereq_list_of(arg.li_list)
    /\ IsDefault(result.val.Prerequisites)
    /\ IsDefault(result.val.PreOrCorequisites)

====
